---- MODULE Spec2Model ----
(***************************************************************************)
(* A model of jw1912/bulletformat: the streaming DataLoader (loader.rs),   *)
(* the parallel conversion driver (convert.rs), the canonical chess and    *)
(* Ataxx records with their text parsers (chess.rs, ataxx.rs) and the      *)
(* legacy Marlin / CudAD converters (chess/marlin.rs, chess/cudad.rs).     *)
(*                                                                         *)
(* A file is modelled at record granularity: its payload is a sequence of  *)
(* record values, while every length and offset the code computes is kept  *)
(* in bytes (offsets are multiples of DATA_SIZE once the header is read).  *)
(***************************************************************************)
EXTENDS Integers, Sequences, FiniteSets, TLC

VARIABLES
    file,         \* the input file's records, in file order (after the header)
    header_size,  \* T::HEADER_SIZE of the record type being loaded
    buffer_size,  \* DataLoader.buffer_size, bytes
    batch_size,   \* the batch_size argument
    file_pos,     \* the file cursor, bytes from the start of the file
    buffer,       \* the refill buffer, as records (cap / DATA_SIZE of them)
    bytes_read,   \* the last read's return value
    pc,           \* position of map_batches, or of the reader thread
    rest,         \* the chunks of the current refill not yet handed to f
    batches,      \* the batches f has been called with, in call order
    chan,         \* the sync_channel's queue of sent buffers
    cpc,          \* position of the calling thread of the threaded variant
    overflow_checks, \* the build: TRUE when integer overflow panics (debug),
                     \* FALSE when it wraps (release)
    threads,      \* convert_from_bin's threads argument
    batch,        \* the batch the closure of convert_from_bin is working on
    workers,      \* the scoped threads of that batch, in spawn order
    converted,    \* the joined workers' buffers, in join order
    nwritten,     \* how many of them have been written
    output,       \* the records written to the output file, in order
    converted_count, \* the closure's progress counter
    out_of_order, \* history: some worker finished before an earlier-spawned one
    input,        \* what a parser or converter is given: a line, a legacy
                  \* record or raw bitboards, by its description
    stage,        \* how far the record has come: "input", "parsed", "formatted"
    res,          \* what the last from_str, from or from_raw call returned
    texts         \* what the to_string calls returned, in call order

loaderVars == <<file, header_size, buffer_size, batch_size, file_pos, buffer,
                bytes_read, pc, rest, batches>>

threadVars == <<chan, cpc>>

buildVars == <<overflow_checks>>

convertVars == <<threads, batch, workers, converted, nwritten, output,
                 converted_count, out_of_order>>

\* what no loader action touches
codecVars == <<input, stage, res, texts>>

offLoader == <<buildVars, convertVars, codecVars>>

vars == <<loaderVars, threadVars, buildVars, convertVars, codecVars>>

-----------------------------------------------------------------------------
(* Bounds of the model *)

\* the longest input file, in records
MaxRecords == 5
\* the largest memory budget, in records
MaxBudgetRecords == 4
\* the largest batch size
MaxBatch == 4
\* the header length of a record type that declares one, in bytes
HeaderBytes == 8

-----------------------------------------------------------------------------
(* Helpers standing for the standard library *)

Min(a, b) == IF a < b THEN a ELSE b

\* slice[a..b) of a sequence, 0-based as in Rust
Slice(s, a, b) == [i \in 1..(b - a) |-> s[a + i]]

\* <[T]>::chunks(n): consecutive slices of n elements, the last possibly shorter
RECURSIVE Chunks(_, _)
Chunks(s, n) ==
    IF Len(s) = 0 THEN <<>>
    ELSE IF Len(s) <= n THEN <<s>>
    ELSE <<Slice(s, 0, n)>> \o Chunks(Slice(s, n, Len(s)), n)

\* concatenation of a sequence of sequences
RECURSIVE Flatten(_)
Flatten(ss) == IF ss = <<>> THEN <<>> ELSE Head(ss) \o Flatten(Tail(ss))

-----------------------------------------------------------------------------
(* loader.rs: DataLoader *)

\* size_of::<T>(): every record type is 32 bytes
DATA_SIZE == 32

\* the zeroed record of vec![0; cap]
ZeroRecord == 0

\* the files of the model: records 1..n, all distinct
FileOf(n) == [i \in 1..n |-> i]

\* the length of the file on disk, bytes
FileLen == header_size + DATA_SIZE * Len(file)

\* let batches_per_load = self.buffer_size / Self::DATA_SIZE / batch_size;
BatchesPerLoad == (buffer_size \div DATA_SIZE) \div batch_size

\* a cap that is the whole budget, not rounded down to whole batches
CapUnrounded == DATA_SIZE * (buffer_size \div DATA_SIZE)

\* let cap = Self::DATA_SIZE * batch_size * batches_per_load;
Cap == DATA_SIZE * batch_size * BatchesPerLoad

\* DataLoader::max_batch_size
MaxBatchSize == buffer_size \div DATA_SIZE

\* File::read on a regular file: as many bytes as the buffer holds, fewer
\* only when the file ends first, 0 at end of file
ReadLen(pos) == Min(Cap, FileLen - pos)

\* the buffer after a read of n bytes at offset pos: its first n bytes are
\* overwritten, the rest keeps what an earlier read (or vec![0; cap]) left
ReadInto(buf, pos, n) ==
    [i \in 1..Len(buf) |->
        IF i <= n \div DATA_SIZE
        THEN file[(pos - header_size) \div DATA_SIZE + i]
        ELSE buf[i]]

\* util::to_slice_with_lifetime(&buffer[..n]): the first n bytes of the
\* buffer seen as whole records
ToSlice(buf, n) == Slice(buf, 0, n \div DATA_SIZE)

\* map_batches up to the loop: the header is read and discarded, the buffer
\* is allocated
ReadHeader ==
    /\ pc = "start"
    /\ file_pos' = IF header_size > 0 THEN header_size ELSE file_pos
    /\ buffer' = [i \in 1..(Cap \div DATA_SIZE) |-> ZeroRecord]
    /\ pc' = "read"
    /\ UNCHANGED <<file, header_size, buffer_size, batch_size, bytes_read,
                   rest, batches>>
    /\ UNCHANGED <<threadVars, offLoader>>

\* one turn of the loop up to the for: the read, the break on 0 bytes, the
\* filled region &buffer[..bytes_read] split into chunks
Read ==
    /\ pc = "read"
    /\ LET n == ReadLen(file_pos) IN
        /\ bytes_read' = n
        /\ file_pos' = file_pos + n
        /\ buffer' = ReadInto(buffer, file_pos, n)
        /\ IF n = 0
           THEN pc' = "done" /\ rest' = <<>>
           ELSE /\ pc' = "batch"
                /\ rest' = Chunks(ToSlice(ReadInto(buffer, file_pos, n), n),
                                  batch_size)
    /\ UNCHANGED <<file, header_size, buffer_size, batch_size, batches>>
    /\ UNCHANGED <<threadVars, offLoader>>

\* one turn of for batch in data.chunks(batch_size) { f(batch) }, with the
\* f of a caller that records what it is given
CallF ==
    /\ pc = "batch"
    /\ batches' = Append(batches, Head(rest))
    /\ rest' = Tail(rest)
    /\ pc' = IF Tail(rest) = <<>> THEN "read" ELSE "batch"
    /\ UNCHANGED <<file, header_size, buffer_size, batch_size, file_pos,
                   buffer, bytes_read>>
    /\ UNCHANGED <<threadVars, offLoader>>

\* map_batches as a function of the file: what f is called with, from the
\* read at offset pos on
RECURSIVE MapBatchesFrom(_, _)
MapBatchesFrom(pos, buf) ==
    LET n == ReadLen(pos) IN
    IF n = 0 THEN <<>>
    ELSE Chunks(ToSlice(ReadInto(buf, pos, n), n), batch_size)
            \o MapBatchesFrom(pos + n, ReadInto(buf, pos, n))

MapBatches ==
    MapBatchesFrom(header_size, [i \in 1..(Cap \div DATA_SIZE) |-> ZeroRecord])

\* DataLoader::new followed by the call of a loader method: any file, any
\* budget and any batch size >= 1 within the bounds
LoaderInit ==
    /\ file \in {FileOf(n) : n \in 0..MaxRecords}
    /\ header_size \in {0, HeaderBytes}
    /\ buffer_size \in {DATA_SIZE * k : k \in 0..MaxBudgetRecords}
    /\ batch_size \in 1..MaxBatch
    /\ file_pos = 0
    /\ buffer = <<>>
    /\ bytes_read = 0
    /\ pc = "start"
    /\ rest = <<>>
    /\ batches = <<>>

\* no second thread
ThreadIdle == chan = <<>> /\ cpc = "none"

\* the loader overflows nothing: one build stands for both
BuildAny == overflow_checks = FALSE

\* no conversion is running
ConvertIdle ==
    /\ threads = 0
    /\ batch = <<>>
    /\ workers = <<>>
    /\ converted = <<>>
    /\ nwritten = 0
    /\ output = <<>>
    /\ converted_count = 0
    /\ out_of_order = FALSE

\* the description of an input: a position of the model, the side to move
\* (stm: the second player), score and outcome code, and for a line how it
\* is spelled and what is wrong with it
NoInput ==
    [kind |-> "none", pos |-> 0, stm |-> FALSE, score |-> 0, code |-> 0,
     form |-> 0, spelling |-> 0, flaw |-> "none", variant |-> 0]

\* no record is being parsed or converted
CodecIdle ==
    /\ input = NoInput
    /\ stage = "none"
    /\ res = [ok |-> FALSE, err |-> "none"]
    /\ texts = <<>>

InitLoader == LoaderInit /\ ThreadIdle /\ BuildAny /\ ConvertIdle /\ CodecIdle

NextLoader == ReadHeader \/ Read \/ CallF

\* DataLoader::map_batches
SpecLoader == InitLoader /\ [][NextLoader]_vars

IsPrefix(s, t) == Len(s) <= Len(t) /\ \A i \in 1..Len(s) : s[i] = t[i]

CeilDiv(a, b) == (a + b - 1) \div b

\* the loop of the actions and the function MapBatches deliver the same batches
MapBatchesAgree == pc = "done" => batches = MapBatches

\* C2's case: 1 <= batch_size <= the number of records the budget holds
BatchFitsBudget == batch_size >= 1 /\ batch_size <= MaxBatchSize

\* C2: for a file of whole records and a batch size between 1 and the number
\* of records the budget holds, the batches handed to f are, concatenated in
\* call order, a prefix of the file at every moment and the whole file when
\* map_batches returns; no batch is empty or longer than batch_size; a
\* batch shorter than batch_size is the last of its refill; and the file's
\* N records arrive in ceil(N / batch_size) batches.
C2_BatchesAreTheFile ==
    /\ [](BatchFitsBudget =>
            /\ IsPrefix(Flatten(batches), file)
            /\ \A i \in 1..Len(batches) :
                    Len(batches[i]) >= 1 /\ Len(batches[i]) <= batch_size
            /\ pc = "done" =>
                    /\ Flatten(batches) = file
                    /\ Len(batches) = CeilDiv(Len(file), batch_size))
    /\ [][(BatchFitsBudget /\ batches' # batches
            /\ Len(batches'[Len(batches')]) < batch_size) => rest' = <<>>]_vars

\* a run of several refills whose last batch is short
C2_Witness ==
    /\ pc = "done"
    /\ Len(file) = 5
    /\ batch_size = 2
    /\ buffer_size = 3 * DATA_SIZE
    /\ Len(batches) = 3
    /\ batches[3] = <<5>>

-----------------------------------------------------------------------------
(* loader.rs: DataLoader::map_batches_threaded_loading *)

\* sync_channel::<Vec<u8>>(2)
CHANNEL_BOUND == 2

\* the reader thread up to its loop
ThreadReadHeader ==
    /\ pc = "start"
    /\ file_pos' = IF header_size > 0 THEN header_size ELSE file_pos
    /\ buffer' = [i \in 1..(Cap \div DATA_SIZE) |-> ZeroRecord]
    /\ pc' = "read"
    /\ UNCHANGED <<file, header_size, buffer_size, batch_size, bytes_read,
                   rest, batches>>
    /\ UNCHANGED <<threadVars, offLoader>>

\* the reader thread's read; on 0 bytes the thread ends and drops the sender
ThreadRead ==
    /\ pc = "read"
    /\ LET n == ReadLen(file_pos) IN
        /\ bytes_read' = n
        /\ file_pos' = file_pos + n
        /\ buffer' = ReadInto(buffer, file_pos, n)
        /\ pc' = IF n = 0 THEN "exit" ELSE "send"
    /\ UNCHANGED <<file, header_size, buffer_size, batch_size, rest, batches>>
    /\ UNCHANGED <<threadVars, offLoader>>

\* a send that never blocks (an unbounded channel)
ThreadSendUnbounded ==
    /\ pc = "send"
    /\ chan' = Append(chan, buffer)
    /\ pc' = "read"
    /\ UNCHANGED <<file, header_size, buffer_size, batch_size, file_pos,
                   buffer, bytes_read, rest, batches, cpc>>
    /\ UNCHANGED offLoader

\* sender.send(buffer.to_vec()): a copy of the whole buffer is queued; the
\* send blocks while the queue holds CHANNEL_BOUND buffers
ThreadSend ==
    /\ pc = "send"
    /\ Len(chan) < CHANNEL_BOUND
    /\ chan' = Append(chan, buffer)
    /\ pc' = "read"
    /\ UNCHANGED <<file, header_size, buffer_size, batch_size, file_pos,
                   buffer, bytes_read, rest, batches, cpc>>
    /\ UNCHANGED offLoader

\* a recv that never sees the sender dropped
RecvNoHangup ==
    /\ cpc = "recv"
    /\ chan # <<>>
    /\ chan' = Tail(chan)
    /\ rest' = Chunks(ToSlice(Head(chan), DATA_SIZE * Len(Head(chan))),
                      batch_size)
    /\ cpc' = IF Len(Head(chan)) = 0 THEN "recv" ELSE "batch"
    /\ UNCHANGED <<file, header_size, buffer_size, batch_size, file_pos,
                   buffer, bytes_read, pc, batches>>
    /\ UNCHANGED offLoader

\* reciever.recv(): blocks while the queue is empty and the sender lives;
\* Ok(buf) takes the oldest buffer, which is split whole into chunks; Err
\* once the queue is empty and the sender is dropped ends the while let
Recv ==
    /\ cpc = "recv"
    /\ \/ /\ chan # <<>>
          /\ chan' = Tail(chan)
          /\ rest' = Chunks(ToSlice(Head(chan), DATA_SIZE * Len(Head(chan))),
                            batch_size)
          /\ cpc' = IF Len(Head(chan)) = 0 THEN "recv" ELSE "batch"
       \/ /\ chan = <<>>
          /\ pc = "exit"
          /\ cpc' = "join"
          /\ UNCHANGED <<chan, rest>>
    /\ UNCHANGED <<file, header_size, buffer_size, batch_size, file_pos,
                   buffer, bytes_read, pc, batches>>
    /\ UNCHANGED offLoader

\* one turn of the calling thread's for batch in data.chunks(batch_size)
ThreadCallF ==
    /\ cpc = "batch"
    /\ batches' = Append(batches, Head(rest))
    /\ rest' = Tail(rest)
    /\ cpc' = IF Tail(rest) = <<>> THEN "recv" ELSE "batch"
    /\ UNCHANGED <<file, header_size, buffer_size, batch_size, file_pos,
                   buffer, bytes_read, pc, chan>>
    /\ UNCHANGED offLoader

\* dataloader.join().unwrap()
Join ==
    /\ cpc = "join"
    /\ pc = "exit"
    /\ cpc' = "done"
    /\ UNCHANGED <<loaderVars, chan, offLoader>>

InitThreaded ==
    LoaderInit /\ chan = <<>> /\ cpc = "recv" /\ BuildAny /\ ConvertIdle
        /\ CodecIdle

NextThreaded ==
    \/ ThreadReadHeader
    \/ ThreadRead
    \/ ThreadSend
    \/ Recv
    \/ ThreadCallF
    \/ Join

SpecThreaded == InitThreaded /\ [][NextThreaded]_vars

\* C3: when map_batches_threaded_loading returns, f has been called with
\* exactly the batches the non-threaded map_batches calls it with for the
\* same file, budget and batch size.
C3_ThreadedSameBatches == cpc = "done" => batches = MapBatches

-----------------------------------------------------------------------------
(* Machine integers.  A u64 bitboard is the set of its set bits (squares   *)
(* 0..63); narrower integers are numbers kept within their width.          *)

RECURSIVE BitOr(_, _)
BitOr(a, b) ==
    IF a = 0 THEN b
    ELSE IF b = 0 THEN a
    ELSE (IF a % 2 = 1 \/ b % 2 = 1 THEN 1 ELSE 0) + 2 * BitOr(a \div 2, b \div 2)

RECURSIVE BitXor(_, _)
BitXor(a, b) ==
    IF a = 0 THEN b
    ELSE IF b = 0 THEN a
    ELSE (((a % 2) + (b % 2)) % 2) + 2 * BitXor(a \div 2, b \div 2)

\* u64::trailing_zeros
TrailingZeros(bb) ==
    IF bb = {} THEN 64 ELSE CHOOSE s \in bb : \A t \in bb : s <= t

I16_MIN == -32768

\* -x on an i16 overflows for i16::MIN only
NegOverflows(x) == x = I16_MIN

\* -x on an i16 where it does not panic: wrapping
NegI16(x) == IF x = I16_MIN THEN I16_MIN ELSE -x

\* a - b on u8 overflows when b > a
SubOverflowsU8(a, b) == b > a

\* a - b on u8 where it does not panic: wrapping
SubU8(a, b) == (a - b) % 256

\* a result: Ok(v), Err(e), or the panic that ends the thread
Ok(v) == [ok |-> TRUE, val |-> v]
Err(e) == [ok |-> FALSE, err |-> e]
Panic == [ok |-> FALSE, err |-> "panic"]

-----------------------------------------------------------------------------
(* chess.rs: ChessBoard and its iterator *)

\* [0; 16]
ZeroPcs == [i \in 0..15 |-> 0]

\* ChessBoard::default()
DefaultBoard ==
    [occ |-> {}, pcs |-> ZeroPcs, score |-> 0, result |-> 0, ksq |-> 0,
     opp_ksq |-> 0]

\* (pcs[idx / 2] >> (4 * (idx & 1))) & 0b1111
Nibble(pcs, idx) == (pcs[idx \div 2] \div (IF idx % 2 = 1 THEN 16 ELSE 1)) % 16

\* pcs[idx / 2] |= piece << (4 * (idx & 1)), piece a u8
OrNibble(pcs, idx, piece) ==
    [pcs EXCEPT ![idx \div 2] =
        BitOr(@, (piece * (IF idx % 2 = 1 THEN 16 ELSE 1)) % 256)]

\* BoardIter::next until None: the (piece, square) pairs of a record, from
\* the iterator state (occ, idx); pcs[idx / 2] is out of bounds from idx = 32
RECURSIVE IterPairs(_, _, _)
IterPairs(occ, pcs, idx) ==
    IF occ = {} THEN <<>>
    ELSE LET square == TrailingZeros(occ)
             piece == Nibble(pcs, idx)
         IN <<<<piece, square>>>> \o IterPairs(occ \ {square}, pcs, idx + 1)

\* board.into_iter() collected
BoardPairs(board) == IterPairs(board.occ, board.pcs, 0)

\* the iterator indexes pcs[16] when the occupancy has a 33rd bit
IterPanics(occ) == Cardinality(occ) > 32

-----------------------------------------------------------------------------
(* chess/marlin.rs and chess/cudad.rs: the legacy records and conversions *)

\* [T]::sort_by_key(|feat| feat.1): a stable sort by square
RECURSIVE InsertBySquare(_, _)
InsertBySquare(sorted, feat) ==
    IF sorted = <<>> THEN <<feat>>
    ELSE IF feat[2] < sorted[Len(sorted)][2]
         THEN Append(InsertBySquare(SubSeq(sorted, 1, Len(sorted) - 1), feat),
                     sorted[Len(sorted)])
         ELSE Append(sorted, feat)

\* features that are left in the order of the loop, not sorted
Unsorted(feats) == feats

RECURSIVE SortBySquare(_)
SortBySquare(feats) ==
    IF feats = <<>> THEN <<>>
    ELSE InsertBySquare(SortBySquare(SubSeq(feats, 1, Len(feats) - 1)),
                        feats[Len(feats)])

\* the body of for (mut piece, mut square) in legacy.into_iter(): the pair
\* as it is stored in features
FlipFeature(feat, stm) ==
    IF stm THEN <<BitXor(feat[1], 8), BitXor(feat[2], 56)>> ELSE feat

\* board.ksq after the loop: the square of the last feature with piece 5
RECURSIVE KsqOf(_, _)
KsqOf(feats, ksq) ==
    IF feats = <<>> THEN ksq
    ELSE KsqOf(Tail(feats), IF Head(feats)[1] = 5 THEN Head(feats)[2] ELSE ksq)

\* an opponent king square that is stored as it stands, not mirrored back
RECURSIVE OppKsqOfUnmirrored(_, _)
OppKsqOfUnmirrored(feats, ksq) ==
    IF feats = <<>> THEN ksq
    ELSE OppKsqOfUnmirrored(Tail(feats),
                            IF Head(feats)[1] = 13 THEN Head(feats)[2] ELSE ksq)

\* board.opp_ksq after the loop: square ^ 56 of the last feature with piece 13
RECURSIVE OppKsqOf(_, _)
OppKsqOf(feats, ksq) ==
    IF feats = <<>> THEN ksq
    ELSE OppKsqOf(Tail(feats),
                  IF Head(feats)[1] = 13 THEN BitXor(Head(feats)[2], 56) ELSE ksq)

\* for (idx, (piece, square)) in features.iter().enumerate().take(fidx):
\* board.occ |= 1 << square; board.pcs[idx / 2] |= piece << (4 * (idx & 1))
RECURSIVE PackFeatures(_, _, _)
PackFeatures(board, feats, idx) ==
    IF idx >= Len(feats) THEN board
    ELSE PackFeatures(
            [board EXCEPT !.occ = @ \cup {feats[idx + 1][2]},
                          !.pcs = OrNibble(@, idx, feats[idx + 1][1])],
            feats, idx + 1)

\* the features loop, the sort and the re-encoding shared by both conversions
ConvertFeatures(board, occ, pcs, stm) ==
    LET feats == [i \in 1..Cardinality(occ) |->
                    FlipFeature(IterPairs(occ, pcs, 0)[i], stm)]
        withKings == [board EXCEPT !.ksq = KsqOf(feats, @),
                                   !.opp_ksq = OppKsqOf(feats, @)]
    IN PackFeatures(withKings, SortBySquare(feats), 0)

\* MarlinFormat::is_black_to_move: self.stm_enp >> 7 > 0
MarlinBlackToMove(mf) == mf.stm_enp \div 128 > 0

\* impl From<MarlinFormat> for ChessBoard
FromMarlin(mf) ==
    LET stm == mf.stm_enp \div 128 = 1 IN
    IF stm /\ overflow_checks
           /\ (NegOverflows(mf.score) \/ SubOverflowsU8(2, mf.result))
    THEN Panic
    ELSE IF IterPanics(mf.occ) THEN Panic
    ELSE Ok(ConvertFeatures(
            [DefaultBoard EXCEPT
                !.score = IF stm THEN NegI16(mf.score) ELSE mf.score,
                !.result = IF stm THEN SubU8(2, mf.result) ELSE mf.result],
            mf.occ, mf.pcs, stm))

\* CudADFormat::is_black_to_move: self.stmr >> 7 > 0
CudADBlackToMove(cudad) == cudad.stmr \div 128 > 0

\* 1 - wdl or 1 + wdl leaves the i8 range
ResStmOverflows(cudad) ==
    IF CudADBlackToMove(cudad) THEN 1 - cudad.wdl > 127 ELSE 1 + cudad.wdl > 127

\* CudADFormat::res_stm before its assert: r, wrapped to an i8
ResStmR(cudad) ==
    LET r == IF CudADBlackToMove(cudad) THEN 1 - cudad.wdl ELSE 1 + cudad.wdl
    IN IF r > 127 THEN r - 256 ELSE r

\* impl From<CudADFormat> for ChessBoard
FromCudAD(cudad) ==
    LET stm == CudADBlackToMove(cudad) IN
    IF overflow_checks
           /\ ((stm /\ NegOverflows(cudad.score)) \/ ResStmOverflows(cudad))
    THEN Panic
    ELSE IF ResStmR(cudad) < 0 THEN Panic
    ELSE IF IterPanics(cudad.occ) THEN Panic
    ELSE Ok(ConvertFeatures(
            [DefaultBoard EXCEPT
                !.score = IF stm THEN NegI16(cudad.score) ELSE cudad.score,
                !.result = ResStmR(cudad)],
            cudad.occ, cudad.pcs, stm))

-----------------------------------------------------------------------------
(* The legacy records of the model *)

\* occupancy and nibble array of a position given as (piece, square) pairs,
\* as a legacy writer lays them out: codes in ascending square order
PackedPairs(pairs) == PackFeatures(DefaultBoard, SortBySquare(pairs), 0)

MarlinRecord(pairs, stm_enp, score, result) ==
    [occ |-> PackedPairs(pairs).occ, pcs |-> PackedPairs(pairs).pcs,
     stm_enp |-> stm_enp, hfm |-> 0, fmc |-> 1, score |-> score,
     result |-> result, extra |-> 0]

CudADRecord(pairs, stmr, score, wdl) ==
    [pcs |-> PackedPairs(pairs).pcs, occ |-> PackedPairs(pairs).occ,
     mvcnt |-> 1, fmr |-> 0, stmr |-> stmr, enp |-> 0, score |-> score,
     wdl |-> wdl]

\* piece codes: colour << 3 | type, types P N B R Q K = 0..5
WK == 5
BK == 13

\* three small positions; the third holds Marlin's code 6 on a1 and h8
SamplePairs ==
    << << <<WK, 4>>, <<BK, 60>> >>,
       << <<WK, 6>>, <<3, 5>>, <<0, 12>>, <<8, 52>>, <<BK, 62>>, <<12, 59>> >>,
       << <<6, 0>>, <<WK, 4>>, <<BK, 60>>, <<14, 63>> >> >>

\* the bytes of the record the model's file holds as record id: records of
\* both sides to move, all different, the fourth with the score i16::MIN
RecordOf(id) ==
    MarlinRecord(SamplePairs[(id % 3) + 1],
                 IF id % 2 = 0 THEN 128 + 8 ELSE 8,
                 IF id = 4 THEN I16_MIN ELSE 120 * id,
                 id % 3)

-----------------------------------------------------------------------------
(* convert.rs: convert_from_bin::<MarlinFormat, ChessBoard> *)

\* U::from(pos), pos the record with this id
UFrom(id) == FromMarlin(RecordOf(id))

\* a chunk size for twice the thread count
ChunkSizeHalved == Len(batch) \div (2 * threads) + 1

\* let chunk_size = batch.len() / threads + 1;
ChunkSize == Len(batch) \div threads + 1

\* the loader's state but its position and pending chunks
loaderData == <<file, header_size, buffer_size, batch_size, file_pos, buffer,
                bytes_read, batches>>

\* the closure up to the spawns: f(batch) is entered
ConvertCallF ==
    /\ pc = "batch"
    /\ batch' = Head(rest)
    /\ rest' = Tail(rest)
    /\ converted_count' = converted_count + Len(Head(rest))
    /\ workers' = <<>>
    /\ converted' = <<>>
    /\ nwritten' = 0
    /\ pc' = "spawn"
    /\ UNCHANGED <<loaderData, threads, output, out_of_order>>
    /\ UNCHANGED <<threadVars, buildVars, codecVars>>

\* batch.chunks(chunk_size).map(|chunk| s.spawn(..)): the next chunk's
\* worker is spawned; after the last one the driver turns to the joins
Spawn ==
    /\ pc = "spawn"
    /\ LET chunks == Chunks(batch, ChunkSize) IN
        /\ workers' = Append(workers,
                [chunk |-> chunks[Len(workers) + 1], buffer |-> <<>>,
                 st |-> "running"])
        /\ pc' = IF Len(workers) + 1 = Len(chunks) THEN "join" ELSE "spawn"
    /\ UNCHANGED <<loaderData, rest, threads, batch, converted, nwritten,
                   output, converted_count, out_of_order>>
    /\ UNCHANGED <<threadVars, buildVars, codecVars>>

\* one turn of a worker's for &pos in chunk { buffer.push(U::from(pos)) };
\* after the last push the worker returns its buffer; a panic in U::from
\* ends the worker
WorkerStep(w) ==
    /\ w \in 1..Len(workers)
    /\ workers[w].st = "running"
    /\ LET pos == workers[w].chunk[Len(workers[w].buffer) + 1]
           pushed == Append(workers[w].buffer, UFrom(pos).val)
           st == IF ~UFrom(pos).ok THEN "panicked"
                 ELSE IF Len(pushed) = Len(workers[w].chunk) THEN "finished"
                 ELSE "running"
       IN /\ workers' = [workers EXCEPT
                ![w].buffer = IF UFrom(pos).ok THEN pushed ELSE @,
                ![w].st = st]
          /\ out_of_order' =
                (out_of_order \/
                    (st = "finished" /\ \E v \in 1..(w - 1) :
                                            workers[v].st = "running"))
    /\ UNCHANGED <<loaderVars, threads, batch, converted, nwritten, output,
                   converted_count>>
    /\ UNCHANGED <<threadVars, buildVars, codecVars>>

\* the buffer written next: for part in converted, front to back
PartToWriteReversed == converted[Len(converted) - nwritten]

PartToWrite == converted[nwritten + 1]

\* a join that does not wait: the driver takes what the next worker has
\* pushed so far
JoinWorkerEarly ==
    /\ pc = "join"
    /\ converted' = Append(converted, workers[Len(converted) + 1].buffer)
    /\ pc' = IF Len(converted) + 1 = Len(workers) THEN "write" ELSE "join"
    /\ UNCHANGED <<loaderData, rest, threads, batch, workers, nwritten, output,
                   converted_count, out_of_order>>
    /\ UNCHANGED <<threadVars, buildVars, codecVars>>

\* .map(|p| p.join().unwrap()): the driver waits for the next worker in
\* spawn order and takes its buffer; a worker's panic panics the driver
JoinWorker ==
    /\ pc = "join"
    /\ LET w == workers[Len(converted) + 1] IN
        /\ w.st # "running"
        /\ IF w.st = "panicked"
           THEN pc' = "panicked" /\ UNCHANGED converted
           ELSE /\ converted' = Append(converted, w.buffer)
                /\ pc' = IF Len(converted) + 1 = Len(workers)
                         THEN "write" ELSE "join"
    /\ UNCHANGED <<loaderData, rest, threads, batch, workers, nwritten, output,
                   converted_count, out_of_order>>
    /\ UNCHANGED <<threadVars, buildVars, codecVars>>

\* one turn of for part in converted { write_to_bin(&mut output, &part) };
\* after the last one the closure returns to map_batches' for loop
WritePart ==
    /\ pc = "write"
    /\ output' = output \o PartToWrite
    /\ nwritten' = nwritten + 1
    /\ pc' = IF nwritten + 1 < Len(converted) THEN "write"
             ELSE IF rest = <<>> THEN "read" ELSE "batch"
    /\ UNCHANGED <<loaderData, rest, threads, batch, workers, converted,
                   converted_count, out_of_order>>
    /\ UNCHANGED <<threadVars, buildVars, codecVars>>

\* the largest thread count
MaxThreads == 4

\* DataLoader::<T>::new(inp_path, 512), batch_size = loader.max_batch_size():
\* a budget of at least one record, any thread count >= 1, either build
InitConvert ==
    /\ LoaderInit
    /\ buffer_size >= DATA_SIZE
    /\ batch_size = MaxBatchSize
    /\ ThreadIdle
    /\ overflow_checks \in BOOLEAN
    /\ threads \in 1..MaxThreads
    /\ batch = <<>>
    /\ workers = <<>>
    /\ converted = <<>>
    /\ nwritten = 0
    /\ output = <<>>
    /\ converted_count = 0
    /\ out_of_order = FALSE
    /\ CodecIdle

NextConvert ==
    \/ ReadHeader
    \/ Read
    \/ ConvertCallF
    \/ Spawn
    \/ \E w \in 1..MaxThreads : WorkerStep(w)
    \/ JoinWorker
    \/ WritePart

SpecConvert == InitConvert /\ [][NextConvert]_vars

\* C1: at every moment the records written so far are the conversions of the
\* first records of the input, in input order, and when convert_from_bin
\* returns the output holds U::from of every input record, the i-th output
\* record being U::from of the i-th input record: a function of the input
\* file alone, whatever the thread count and the order the workers finish in.
C1_OutputInInputOrder ==
    /\ Len(output) <= Len(file)
    /\ \A i \in 1..Len(output) :
            UFrom(file[i]).ok /\ output[i] = UFrom(file[i]).val
    /\ pc = "done" => Len(output) = Len(file)

\* a conversion by 2 threads of 5 records in several batches has returned,
\* and in it a worker finished before one spawned earlier
C1_Witness ==
    /\ pc = "done"
    /\ threads = 2
    /\ Len(file) = 5
    /\ buffer_size = 3 * DATA_SIZE
    /\ out_of_order
    /\ Len(output) = 5

-----------------------------------------------------------------------------
(* Text.  A &str is the sequence of its characters; what follows stands   *)
(* for the standard library's str and integer parsing and formatting.     *)

Digits == <<"0", "1", "2", "3", "4", "5", "6", "7", "8", "9">>

IsDigit(ch) == \E d \in 1..10 : Digits[d] = ch

\* char::to_digit(10) of a digit
DigitVal(ch) == (CHOOSE d \in 1..10 : Digits[d] = ch) - 1

\* a decimal with more digits than any integer type parsed here can hold
MaxParseDigits == 7

RECURSIVE DigitsVal(_, _)
DigitsVal(txt, acc) ==
    IF txt = <<>> THEN acc ELSE DigitsVal(Tail(txt), 10 * acc + DigitVal(Head(txt)))

\* str::parse::<integer>() into lo..hi: an optional sign ('-' for signed
\* types only), then at least one digit, nothing else, the value in range
ParseInt(txt, lo, hi) ==
    LET signed == lo < 0
        hasSign == txt # <<>> /\ (Head(txt) = "+" \/ (signed /\ Head(txt) = "-"))
        digits == IF hasSign THEN Tail(txt) ELSE txt
        zeros == CHOOSE k \in 0..Len(digits) :
                    /\ \A j \in 1..k : digits[j] = "0"
                    /\ k < Len(digits) => digits[k + 1] # "0"
        significant == SubSeq(digits, zeros + 1, Len(digits))
        mag == DigitsVal(significant, 0)
        val == IF hasSign /\ Head(txt) = "-" THEN -mag ELSE mag
    IN IF digits = <<>> \/ \E j \in 1..Len(digits) : ~IsDigit(digits[j])
       THEN [ok |-> FALSE]
       ELSE IF Len(significant) > MaxParseDigits \/ val < lo \/ val > hi
       THEN [ok |-> FALSE]
       ELSE [ok |-> TRUE, val |-> val]

\* Display of a non-negative integer
RECURSIVE NatToChars(_)
NatToChars(n) ==
    IF n < 10 THEN <<Digits[n + 1]>>
    ELSE Append(NatToChars(n \div 10), Digits[(n % 10) + 1])

\* Display of an integer
IntToChars(n) == IF n < 0 THEN <<"-">> \o NatToChars(-n) ELSE NatToChars(n)

\* str::split(sep): the fields between the separators, empty ones included
Split(txt, sep) ==
    LET seps == {i \in 1..Len(txt) : txt[i] = sep}
        n == Cardinality(seps)
        bound(k) == IF k = 0 THEN 0
                    ELSE IF k = n + 1 THEN Len(txt) + 1
                    ELSE CHOOSE i \in seps : Cardinality({j \in seps : j < i}) = k - 1
    IN [k \in 1..(n + 1) |-> SubSeq(txt, bound(k - 1) + 1, bound(k) - 1)]

\* str::split_whitespace: the maximal runs of non-whitespace
SplitWhitespace(txt) == SelectSeq(Split(txt, " "), LAMBDA f : f # <<>>)

\* str::trim
RECURSIVE TrimStart(_)
TrimStart(txt) ==
    IF txt # <<>> /\ Head(txt) = " " THEN TrimStart(Tail(txt)) ELSE txt

RECURSIVE TrimEnd(_)
TrimEnd(txt) ==
    IF txt # <<>> /\ txt[Len(txt)] = " "
    THEN TrimEnd(SubSeq(txt, 1, Len(txt) - 1)) ELSE txt

Trim(txt) == TrimEnd(TrimStart(txt))

\* Iterator::rev on a collected sequence
Reverse(seq) == [i \in 1..Len(seq) |-> seq[Len(seq) + 1 - i]]

\* the three accepted spellings of each outcome, by code
\* "1.0" | "[1.0]" | "1" => 2, "0.5" | "[0.5]" | "1/2" => 1,
\* "0.0" | "[0.0]" | "0" => 0
WdlSpellings ==
    << << <<"0", ".", "0">>, <<"[", "0", ".", "0", "]">>, <<"0">> >>,
       << <<"0", ".", "5">>, <<"[", "0", ".", "5", "]">>, <<"1", "/", "2">> >>,
       << <<"1", ".", "0">>, <<"[", "1", ".", "0", "]">>, <<"1">> >> >>

\* board.result = match wdl { .. }
ParseWdl(wdl) ==
    IF \E c \in 1..3 : \E k \in 1..3 : WdlSpellings[c][k] = wdl
    THEN [ok |-> TRUE,
          val |-> (CHOOSE c \in 1..3 : \E k \in 1..3 : WdlSpellings[c][k] = wdl) - 1]
    ELSE [ok |-> FALSE]

-----------------------------------------------------------------------------
(* ataxx.rs: AtaxxBoard, its FromStr and its Display *)

\* bbs.swap(0, 1)
Swap01(bbs) == [bbs EXCEPT ![0] = bbs[1], ![1] = bbs[0]]

\* for ch in row.chars() { match ch { .. } } from the state st = (bbs, idx,
\* how the loop has ended so far): a piece sets bit idx, with the panic of
\* 1 << idx when idx >= 64 in an overflow-checked build
RECURSIVE AtaxxPlace(_, _)
AtaxxPlace(st, chars) ==
    IF chars = <<>> \/ st.st # "ok" THEN st
    ELSE LET ch == Head(chars) IN
        IF ch \in {"x", "o", "r", "b", "-"}
        THEN IF st.idx >= 64 /\ overflow_checks THEN [st EXCEPT !.st = "panic"]
             ELSE LET bb == (IF ch = "o" \/ ch = "b" THEN 1 ELSE 0)
                                + 2 * (IF ch = "-" THEN 1 ELSE 0)
                  IN AtaxxPlace([st EXCEPT !.bbs[bb] = @ \cup {st.idx % 64},
                                           !.idx = @ + 1],
                                Tail(chars))
        ELSE IF ch \in {"1", "2", "3", "4", "5", "6", "7"}
        THEN AtaxxPlace([st EXCEPT !.idx = @ + DigitVal(ch)], Tail(chars))
        ELSE [st EXCEPT !.st = "err"]

\* for row in board_str.split('/').rev(): rows in the order of the loop
RECURSIVE AtaxxRows(_, _)
AtaxxRows(st, rows) ==
    IF rows = <<>> \/ st.st # "ok" THEN st
    ELSE AtaxxRows(AtaxxPlace(st, Head(rows)), Tail(rows))

\* parts.get(k).unwrap_or(default).parse().unwrap_or(value of default)
CounterOr(parts, k, hi, default) ==
    IF Len(parts) >= k /\ ParseInt(parts[k], 0, hi).ok
    THEN ParseInt(parts[k], 0, hi).val ELSE default

\* <AtaxxBoard as FromStr>::from_str
AtaxxFromStr(s) ==
    LET split == Split(s, "|") IN
    IF Len(split) < 3 THEN Err("Malformed!")
    ELSE
    LET fen == split[1]
        score == Trim(split[2])
        wdl == Trim(split[3])
        parts == SplitWhitespace(fen)
    IN
    IF Len(parts) < 2 THEN Err("Malformed FEN!")
    ELSE
    LET board_str == parts[1]
        stm == parts[2] = <<"o">> \/ parts[2] = <<"b">>
        halfm == CounterOr(parts, 3, 255, 0)
        fullm == CounterOr(parts, 4, 65535, 1)
        placed == AtaxxRows([bbs |-> [i \in 0..2 |-> {}], idx |-> 0,
                             st |-> "ok"],
                            Reverse(Split(board_str, "/")))
        x == ParseInt(score, I16_MIN, 32767)
        result == ParseWdl(wdl)
    IN
    IF placed.st = "panic" THEN Panic
    ELSE IF placed.st = "err" THEN Err("Unrecognised Character {ch}")
    ELSE IF ~x.ok THEN Err("Bad score!")
    ELSE IF ~result.ok THEN Err("Bad game result!")
    ELSE IF stm /\ overflow_checks /\ NegOverflows(x.val) THEN Panic
    ELSE Ok([bbs |-> IF stm THEN Swap01(placed.bbs) ELSE placed.bbs,
             score |-> IF stm THEN NegI16(x.val) ELSE x.val,
             result |-> IF stm THEN SubU8(2, result.val) ELSE result.val,
             stm |-> stm, fullm |-> fullm, halfm |-> halfm, extra |-> 0])

\* pc of Display::fmt for a square
AtaxxPc(bbs, sq) ==
    (IF sq \in bbs[0] THEN 1 ELSE 0) + 2 * (IF sq \in bbs[1] THEN 1 ELSE 0)
        + 3 * (IF sq \in bbs[2] THEN 1 ELSE 0)

\* the inner loop of Display::fmt for row i, from column j with the run
\* of empty squares so far
RECURSIVE AtaxxFmtRow(_, _, _, _)
AtaxxFmtRow(bbs, i, j, empty) ==
    IF j = 7 THEN (IF empty > 0 THEN IntToChars(empty) ELSE <<>>)
    ELSE LET piece == AtaxxPc(bbs, 7 * i + j) IN
        IF piece = 0 THEN AtaxxFmtRow(bbs, i, j + 1, empty + 1)
        ELSE (IF empty > 0 THEN IntToChars(empty) ELSE <<>>)
                \o <<(<<"x", "o", "-">>)[piece]>>
                \o AtaxxFmtRow(bbs, i, j + 1, 0)

\* the outer loop of Display::fmt: for i in (0..7).rev()
RECURSIVE AtaxxFmtRows(_, _)
AtaxxFmtRows(bbs, i) ==
    AtaxxFmtRow(bbs, i, 0, 0)
        \o (IF i > 0 THEN <<"/">> \o AtaxxFmtRows(bbs, i - 1) ELSE <<>>)

\* {:.1} of f32::from(result) / 2.0
FmtHalves(result) ==
    NatToChars(result \div 2) \o <<".", IF result % 2 = 1 THEN "5" ELSE "0">>

\* <AtaxxBoard as Display>::fmt, to_string
AtaxxFmt(board) ==
    LET bbs == IF board.stm THEN Swap01(board.bbs) ELSE board.bbs
        score == IF board.stm THEN NegI16(board.score) ELSE board.score
        result == IF board.stm THEN SubU8(2, board.result) ELSE board.result
    IN
    IF board.stm /\ overflow_checks
           /\ (NegOverflows(board.score) \/ SubOverflowsU8(2, board.result))
    THEN Panic
    ELSE IF \E sq \in 0..48 : AtaxxPc(bbs, sq) > 3 THEN Panic
    ELSE Ok(AtaxxFmtRows(bbs, 6) \o <<" ", IF board.stm THEN "o" ELSE "x", " ">>
            \o IntToChars(board.halfm) \o <<" ">> \o IntToChars(board.fullm)
            \o <<" ", "|", " ">> \o IntToChars(score)
            \o <<" ", "|", " ">> \o FmtHalves(result))

-----------------------------------------------------------------------------
(* chess.rs: <ChessBoard as FromStr>::from_str and ChessBoard::from_raw *)

PieceChars == <<"P", "N", "B", "R", "Q", "K", "p", "n", "b", "r", "q", "k">>

\* square ^ 56 on a usize that may have wrapped: bits 3..5 are flipped
Xor56(square) == (square - (square % 64)) + BitXor(square % 64, 56)

\* the body of parse_row's for ch in row.chars(), from the state st =
\* (board, idx, how the closure has ended so far), for row index i at column
\* col.  A wrapped usize is kept as the negative number it is congruent to.
RECURSIVE ParseRow(_, _, _, _, _)
ParseRow(st, stm, i, row, col) ==
    IF row = <<>> \/ st.st # "ok" THEN st
    ELSE LET ch == Head(row) IN
        IF ch \in {"1", "2", "3", "4", "5", "6", "7", "8"}
        THEN ParseRow(st, stm, i, Tail(row), col + DigitVal(ch))
        ELSE IF \E p \in 1..12 : PieceChars[p] = ch
        THEN LET p == (CHOOSE q \in 1..12 : PieceChars[q] = ch) - 1
                 piece0 == 8 * (p \div 6) + (p % 6)
                 piece == IF stm THEN BitXor(piece0, 8) ELSE piece0
                 square == IF stm THEN Xor56(8 * i + col) ELSE 8 * i + col
             IN
             IF overflow_checks /\ square >= 64 THEN [st EXCEPT !.st = "panic"]
             ELSE IF st.idx >= 32 THEN [st EXCEPT !.st = "err"]
             ELSE ParseRow(
                    [st EXCEPT
                        !.board.ksq = IF piece = 5 THEN square % 256 ELSE @,
                        !.board.opp_ksq =
                            IF piece = 13 THEN BitXor(square % 256, 56) ELSE @,
                        !.board.occ = @ \cup {square % 64},
                        !.board.pcs = OrNibble(@, st.idx, piece),
                        !.idx = @ + 1],
                    stm, i, Tail(row), col + 1)
        ELSE ParseRow(st, stm, i, Tail(row), col)

\* the two loops over board_str.split('/'): rows is the sequence in the
\* order the loop visits it, k the enumerate() index; 7 - i overflows from
\* the ninth row on
RECURSIVE ParseRows(_, _, _, _)
ParseRows(st, stm, rows, k) ==
    IF rows = <<>> \/ st.st # "ok" THEN st
    ELSE IF stm /\ k > 7 /\ overflow_checks THEN [st EXCEPT !.st = "panic"]
    ELSE ParseRows(ParseRow(st, stm, IF stm THEN 7 - k ELSE k, Head(rows), 0),
                   stm, Tail(rows), k + 1)

\* <ChessBoard as FromStr>::from_str
ChessFromStr(s) ==
    LET split == Split(s, "|") IN
    IF Len(split) < 3 THEN Err("Malformed!")
    ELSE
    LET fen == split[1]
        score == Trim(split[2])
        wdl == Trim(split[3])
        parts == SplitWhitespace(fen)
    IN
    IF Len(parts) < 2 THEN Err("Malformed FEN!")
    ELSE
    LET board_str == parts[1]
        stm == parts[2] = <<"b">>
        rows == Split(board_str, "/")
        parsed == ParseRows([board |-> DefaultBoard, idx |-> 0, st |-> "ok"],
                            stm, IF stm THEN rows ELSE Reverse(rows), 0)
        x == ParseInt(score, I16_MIN, 32767)
        result == ParseWdl(wdl)
    IN
    IF parsed.st = "panic" THEN Panic
    ELSE IF parsed.st = "err" THEN Err("{s}")
    ELSE IF ~x.ok THEN Err("Bad score!")
    ELSE IF ~result.ok THEN Err("Bad game result!")
    ELSE IF stm /\ overflow_checks /\ NegOverflows(x.val) THEN Panic
    ELSE Ok([parsed.board EXCEPT
                !.score = IF stm THEN NegI16(x.val) ELSE x.val,
                !.result = IF stm THEN SubU8(2, result.val) ELSE result.val])

\* u64::swap_bytes: byte k goes to byte 7 - k
SwapBytes(bb) == {BitXor(sq, 56) : sq \in bb}

\* the while occ2 > 0 loop of from_raw, from the state (occ2, pcs, idx)
RECURSIVE RawPieces(_, _, _, _)
RawPieces(bbs, occ2, pcs, idx) ==
    IF occ2 = {} THEN [st |-> "ok", pcs |-> pcs]
    ELSE LET sq == TrailingZeros(occ2)
             colour == IF sq \in bbs[1] THEN 8 ELSE 0
         IN
         IF ~\E k \in 2..7 : sq \in bbs[k] THEN [st |-> "err"]
         ELSE IF idx >= 32 THEN [st |-> "panic"]
         ELSE LET piece == (CHOOSE k \in 2..7 :
                                /\ sq \in bbs[k]
                                /\ \A j \in 2..(k - 1) : sq \notin bbs[j]) - 2
              IN RawPieces(bbs, occ2 \ {sq},
                           OrNibble(pcs, idx, BitOr(colour, piece)), idx + 1)

\* ChessBoard::from_raw; the f32 result is held as its number of halves
\* (0.0, 0.5, 1.0 are 0, 1, 2), for which 1.0 - result and (2.0 * result)
\* as u8 are exact
ChessFromRaw(bbs0, stm, score0, halves0) ==
    LET flipped == [k \in 0..7 |-> SwapBytes(bbs0[k])]
        bbs == IF stm = 1
               THEN [flipped EXCEPT ![0] = flipped[1], ![1] = flipped[0]]
               ELSE bbs0
        score == IF stm = 1 THEN NegI16(score0) ELSE score0
        halves == IF stm = 1 THEN 2 - halves0 ELSE halves0
        occ == bbs[0] \cup bbs[1]
        packed == RawPieces(bbs, occ, ZeroPcs, 0)
    IN
    IF stm = 1 /\ overflow_checks /\ NegOverflows(score0) THEN Panic
    ELSE IF packed.st = "panic" THEN Panic
    ELSE IF packed.st = "err" THEN Err("No Piece Found!")
    ELSE Ok([occ |-> occ, pcs |-> packed.pcs, score |-> score,
             result |-> halves,
             ksq |-> TrailingZeros(bbs[0] \cap bbs[7]),
             opp_ksq |-> BitXor(TrailingZeros(bbs[1] \cap bbs[7]), 56)])

-----------------------------------------------------------------------------
(* The positions, lines, legacy records and raw bitboards of the model *)

\* the initial position of chess: 32 pieces, as (piece, square) pairs with
\* White's codes 0..5 and Black's 8..13, in ascending square order
StartPairs ==
    <<
       <<3, 0>>, <<1, 1>>, <<2, 2>>, <<4, 3>>, <<5, 4>>, <<2, 5>>,
       <<1, 6>>, <<3, 7>>, <<0, 8>>, <<0, 9>>, <<0, 10>>, <<0, 11>>,
       <<0, 12>>, <<0, 13>>, <<0, 14>>, <<0, 15>>, <<8, 48>>, <<8, 49>>,
       <<8, 50>>, <<8, 51>>, <<8, 52>>, <<8, 53>>, <<8, 54>>, <<8, 55>>,
       <<11, 56>>, <<9, 57>>, <<10, 58>>, <<12, 59>>, <<13, 60>>,
       <<10, 61>>, <<9, 62>>, <<11, 63>>
    >>

\* the chess positions that are read from text or raw bitboards: two bare
\* kings, a six-piece middle game, the initial position
ChessPositions == <<SamplePairs[1], SamplePairs[2], StartPairs>>

\* the positions that are read from legacy records, the third with the
\* overloaded codes
LegacyPositions == <<SamplePairs[1], SamplePairs[2], SamplePairs[3], StartPairs>>

\* the Ataxx positions: the squares (7 * rank + file, rank 0 the last row of
\* the board field) of the first player x, the second player o and the gaps:
\* the empty board and the boards of test::parse
AtaxxPositions ==
    <<
       [x |-> {},
        o |-> {},
        gap |-> {}],
       [x |-> {22, 29, 30, 37},
        o |-> {5, 6, 16, 17, 23, 26, 27, 48},
        gap |-> {}],
       [x |-> {4, 19, 20, 21, 25, 26, 27, 33, 36, 38, 42, 44, 45},
        o |-> {1, 2, 3, 5, 6, 8, 9, 10, 11, 12, 13, 17, 23, 24, 31},
        gap |-> {16, 18, 30, 32}]
    >>

\* halfmove clock and fullmove number written with each Ataxx position, up
\* to the widest the record's u8 and u16 hold
AtaxxCounters == << <<0, 1>>, <<3, 11>>, <<255, 65535>> >>

\* how a line is spelled.  Chess: 1 minimal empty-run digits, 2 a 1 for
\* every empty square.  Ataxx: 1 minimal digits and x/o, 2 a 1 for every
\* empty square and r/b, 3 minimal digits and r/b
UnitDigits(form) == form = 2
AltLetters(form) == form >= 2

\* the text of a rank from its squares' characters, "." an empty square
RECURSIVE RowText(_, _, _)
RowText(cells, empty, unit) ==
    LET run == IF empty > 0 THEN NatToChars(empty) ELSE <<>> IN
    IF cells = <<>> THEN run
    ELSE IF Head(cells) = "."
         THEN IF unit THEN <<"1">> \o RowText(Tail(cells), 0, unit)
              ELSE RowText(Tail(cells), empty + 1, unit)
         ELSE run \o <<Head(cells)>> \o RowText(Tail(cells), 0, unit)

\* ranks from the last index down to 0, '/' between them
RECURSIVE JoinRanks(_, _)
JoinRanks(rank_text, r) ==
    rank_text[r] \o (IF r > 0 THEN <<"/">> \o JoinRanks(rank_text, r - 1) ELSE <<>>)

\* the character of a chess square
ChessCell(pairs, sq) ==
    IF \E i \in 1..Len(pairs) : pairs[i][2] = sq
    THEN LET piece == pairs[CHOOSE i \in 1..Len(pairs) : pairs[i][2] = sq][1]
         IN PieceChars[6 * (piece \div 8) + (piece % 8) + 1]
    ELSE "."

ChessBoardText(pairs, form) ==
    JoinRanks([r \in 0..7 |->
                 RowText([c \in 1..8 |-> ChessCell(pairs, 8 * r + c - 1)], 0,
                         UnitDigits(form))], 7)

\* the character of an Ataxx square
AtaxxCell(position, sq, alt) ==
    IF sq \in position.x THEN (IF alt THEN "r" ELSE "x")
    ELSE IF sq \in position.o THEN (IF alt THEN "b" ELSE "o")
    ELSE IF sq \in position.gap THEN "-"
    ELSE "."

AtaxxBoardText(position, form) ==
    JoinRanks([r \in 0..6 |->
                 RowText([c \in 1..7 |->
                            AtaxxCell(position, 7 * r + c - 1, AltLetters(form))],
                         0, UnitDigits(form))], 6)

\* score fields that are no i16: letters, one past either end of the range,
\* a decimal fraction, nothing
BadScores ==
    << <<"a", "b", "c">>, <<"3", "2", "7", "6", "8">>,
       <<"-", "3", "2", "7", "6", "9">>, <<"1", ".", "5">>, <<>> >>

\* outcome fields that are none of the nine spellings
BadWdls ==
    << <<"2">>, <<"0", ".", "5", "0">>, <<"[", "1", "]">>,
       <<"d", "r", "a", "w">>, <<>> >>

\* characters that are neither a piece nor a digit of an empty run
BadChars == <<"z", "?", "9">>

\* the side-to-move token
StmToken(in) ==
    IF in.kind = "chess" THEN (IF in.stm THEN "b" ELSE "w")
    ELSE IF AltLetters(in.form) THEN (IF in.stm THEN "b" ELSE "r")
    ELSE (IF in.stm THEN "o" ELSE "x")

\* the board field of a line; with the flaw "board_char" a character of
\* BadChars stands in front of it
BoardField(in) ==
    (IF in.flaw = "board_char" THEN <<BadChars[in.variant]>> ELSE <<>>)
        \o (IF in.kind = "chess"
            THEN ChessBoardText(ChessPositions[in.pos], in.form)
            ELSE AtaxxBoardText(AtaxxPositions[in.pos], in.form))

\* the two move counters of a line
CounterFields(in) ==
    IF in.kind = "chess" THEN <<"0", " ", "1">>
    ELSE NatToChars(AtaxxCounters[in.pos][1]) \o <<" ">>
            \o NatToChars(AtaxxCounters[in.pos][2])

\* the line an input describes:
\* <board> <stm> <halfmove> <fullmove> | <score> | <outcome>;
\* with the flaw "fields" it ends before the first or the second '|'
LineOf(in) ==
    LET fen == BoardField(in) \o <<" ", StmToken(in), " ">> \o CounterFields(in)
        score == IF in.flaw = "score" THEN BadScores[in.variant]
                 ELSE IntToChars(in.score)
        wdl == IF in.flaw = "outcome" THEN BadWdls[in.variant]
               ELSE WdlSpellings[in.code + 1][in.spelling]
    IN
    IF in.flaw = "fields" /\ in.variant = 1 THEN fen
    ELSE IF in.flaw = "fields" THEN fen \o <<" ", "|", " ">> \o score
    ELSE fen \o <<" ", "|", " ">> \o score \o <<" ", "|", " ">> \o wdl

\* the normalized form of a line: owners x/o, minimal digits, the outcome
\* in its first spelling
NormalLine(in) == LineOf([in EXCEPT !.form = 1, !.spelling = 1])

\* the Marlin record an input describes
MarlinOf(in) ==
    MarlinRecord(LegacyPositions[in.pos], IF in.stm THEN 128 + 8 ELSE 8,
                 in.score, in.code)

\* the CudAD record an input describes: the outcome signed, code - 1
CudADOf(in) ==
    CudADRecord(LegacyPositions[in.pos], IF in.stm THEN 128 ELSE 0,
                in.score, in.code - 1)

\* the bitboards from_raw is given for a position: White, Black, Pawn,
\* Knight, Bishop, Rook, Queen, King
RawBitboards(pairs) ==
    [k \in 0..7 |->
        {pairs[i][2] : i \in {j \in 1..Len(pairs) :
            IF k < 2 THEN pairs[j][1] \div 8 = k ELSE pairs[j][1] % 8 = k - 2}}]

-----------------------------------------------------------------------------
(* Parsing, formatting and converting one record *)

\* the scores of the model: both ends of the i16 range, zero, and the
\* scores of the tests
Scores == {I16_MIN, -570, 0, 120, 32767}

\* well-formed lines of either game
GoodLines ==
    [kind : {"chess"}, pos : 1..3, stm : BOOLEAN, score : Scores, code : 0..2,
     form : 1..2, spelling : 1..3, flaw : {"none"}, variant : {0}]
    \cup
    [kind : {"ataxx"}, pos : 1..3, stm : BOOLEAN, score : Scores, code : 0..2,
     form : 1..3, spelling : 1..3, flaw : {"none"}, variant : {0}]

\* how many variants a flaw has
Variants(flaw) ==
    CASE flaw = "fields" -> 2
      [] flaw = "board_char" -> Len(BadChars)
      [] flaw = "score" -> Len(BadScores)
      [] flaw = "outcome" -> Len(BadWdls)

\* lines with one thing wrong
FlawedLines ==
    {in \in [kind : {"chess", "ataxx"}, pos : 2..3, stm : BOOLEAN,
             score : {120}, code : {1}, form : {1}, spelling : {1},
             flaw : {"fields", "board_char", "score", "outcome"},
             variant : 1..5] : in.variant <= Variants(in.flaw)}

\* legacy records and raw bitboards
BinaryInputs ==
    [kind : {"marlin", "cudad"}, pos : 1..4, stm : BOOLEAN, score : Scores,
     code : 0..2, form : {0}, spelling : {0}, flaw : {"none"}, variant : {0}]
    \cup
    [kind : {"raw"}, pos : 1..3, stm : BOOLEAN, score : Scores,
     code : 0..2, form : {0}, spelling : {0}, flaw : {"none"}, variant : {0}]

\* no file is being loaded
LoaderIdle ==
    /\ file = <<>>
    /\ header_size = 0
    /\ buffer_size = 0
    /\ batch_size = 1
    /\ file_pos = 0
    /\ buffer = <<>>
    /\ bytes_read = 0
    /\ pc = "none"
    /\ rest = <<>>
    /\ batches = <<>>

InitCodec ==
    /\ LoaderIdle
    /\ ThreadIdle
    /\ ConvertIdle
    /\ overflow_checks \in BOOLEAN
    /\ input \in GoodLines \cup FlawedLines \cup BinaryInputs
    /\ stage = "input"
    /\ res = [ok |-> FALSE, err |-> "none"]
    /\ texts = <<>>

offCodec == <<loaderVars, threadVars, buildVars, convertVars>>

\* line.parse::<ChessBoard>()
ChessParse ==
    /\ stage = "input"
    /\ input.kind = "chess"
    /\ res' = ChessFromStr(LineOf(input))
    /\ stage' = "parsed"
    /\ UNCHANGED <<input, texts, offCodec>>

\* line.parse::<AtaxxBoard>()
AtaxxParse ==
    /\ stage = "input"
    /\ input.kind = "ataxx"
    /\ res' = AtaxxFromStr(LineOf(input))
    /\ stage' = "parsed"
    /\ UNCHANGED <<input, texts, offCodec>>

\* board.to_string() on the record just parsed
AtaxxFormat ==
    /\ stage = "parsed"
    /\ input.kind = "ataxx"
    /\ res.ok
    /\ texts' = Append(texts, AtaxxFmt(res.val))
    /\ stage' = "formatted"
    /\ UNCHANGED <<input, res, offCodec>>

\* the first formatted string parsed again
AtaxxReparse ==
    /\ stage = "formatted"
    /\ Len(texts) = 1
    /\ texts[1].ok
    /\ res' = AtaxxFromStr(texts[1].val)
    /\ stage' = "parsed"
    /\ UNCHANGED <<input, texts, offCodec>>

\* ChessBoard::from(marlin)
MarlinConvert ==
    /\ stage = "input"
    /\ input.kind = "marlin"
    /\ res' = FromMarlin(MarlinOf(input))
    /\ stage' = "parsed"
    /\ UNCHANGED <<input, texts, offCodec>>

\* ChessBoard::from(cudad)
CudADConvert ==
    /\ stage = "input"
    /\ input.kind = "cudad"
    /\ res' = FromCudAD(CudADOf(input))
    /\ stage' = "parsed"
    /\ UNCHANGED <<input, texts, offCodec>>

\* ChessBoard::from_raw(bbs, stm, score, result)
RawConvert ==
    /\ stage = "input"
    /\ input.kind = "raw"
    /\ res' = ChessFromRaw(RawBitboards(ChessPositions[input.pos]),
                           IF input.stm THEN 1 ELSE 0, input.score, input.code)
    /\ stage' = "parsed"
    /\ UNCHANGED <<input, texts, offCodec>>

NextCodec ==
    \/ ChessParse
    \/ AtaxxParse
    \/ AtaxxFormat
    \/ AtaxxReparse
    \/ MarlinConvert
    \/ CudADConvert
    \/ RawConvert

SpecCodec == InitCodec /\ [][NextCodec]_vars

\* a position as the side to move sees it: for the second player every
\* square XOR 56 and every colour bit flipped, in ascending square order
MirroredPairs(pairs, stm) ==
    SortBySquare([i \in 1..Len(pairs) |->
                    IF stm THEN <<BitXor(pairs[i][1], 8), BitXor(pairs[i][2], 56)>>
                    ELSE pairs[i]])

\* the three bitmasks of an Ataxx position as the side to move sees it
MoverMasks(position, stm) ==
    [i \in 0..2 |->
        IF i = 2 THEN position.gap
        ELSE IF (i = 0) = stm THEN position.o ELSE position.x]

\* C5: Ataxx text round trip.  For every well-formed Ataxx line (either side
\* to move, owners x/o or r/b, any digits for the empty runs, any accepted
\* outcome spelling) the line parses, formatting the parsed record gives the
\* normalized form of the line, and parsing that string and formatting
\* again gives the same string.
C5_AtaxxRoundTrip ==
    (input.kind = "ataxx" /\ input.flaw = "none") =>
        /\ stage = "parsed" => res.ok
        /\ \A k \in 1..Len(texts) : texts[k] = Ok(NormalLine(input))

\* C6: side-to-move canonicalization in the text parsers.  A well-formed
\* line parses to a record whose score is the negated score, whose outcome
\* code is 2 - code and whose board is mirrored when the second player is to
\* move (chess: squares XOR 56, colour bits flipped, codes in ascending
\* stored-square order; Ataxx: mover and opponent masks swapped), and to
\* score, outcome and board as read when the first player is to move.
C6_SecondPlayerMirrored ==
    (input.kind \in {"chess", "ataxx"} /\ input.flaw = "none"
            /\ stage = "parsed" /\ texts = <<>>) =>
        /\ res.ok
        /\ res.val.score = (IF input.stm THEN -input.score ELSE input.score)
        /\ res.val.result = (IF input.stm THEN 2 - input.code ELSE input.code)
        /\ input.kind = "chess" =>
              BoardPairs(res.val) = MirroredPairs(ChessPositions[input.pos], input.stm)
        /\ input.kind = "ataxx" =>
              res.val.bbs = MoverMasks(AtaxxPositions[input.pos], input.stm)

\* C7: legacy conversion of score and outcome.  A Marlin or CudAD record
\* converts to a record with score = -score and outcome code = 2 - c when
\* its side-to-move bit marks the second player, and with score and c
\* copied otherwise (c the Marlin outcome, or the CudAD outcome + 1); the
\* outcome code is in {0, 1, 2}.
C7_LegacyScoreOutcome ==
    (input.kind \in {"marlin", "cudad"} /\ stage = "parsed") =>
        /\ res.ok
        /\ res.val.score = (IF input.stm THEN -input.score ELSE input.score)
        /\ res.val.result = (IF input.stm THEN 2 - input.code ELSE input.code)
        /\ res.val.result \in 0..2

\* C8: legacy conversion normalizes overloaded piece codes.  Every piece
\* code of a converted record has a base piece type, low three bits in
\* 0..5, whatever codes the legacy record held.
C8_NoOverloadedCode ==
    (input.kind \in {"marlin", "cudad"} /\ stage = "parsed" /\ res.ok) =>
        \A i \in 1..Len(BoardPairs(res.val)) : BoardPairs(res.val)[i][1] % 8 \in 0..5

\* C9: feature-count invariant.  A chess record produced by the text
\* parser, by from_raw or by a legacy converter from a position with one
\* king per side and at most 32 pieces decodes to popcount(occupancy) pairs
\* with strictly ascending squares, exactly one of them the mover's king
\* (code 5) on our_ksq() and exactly one the opponent's king (code 13) on
\* the square whose XOR with 56 is opp_ksq().
C9_FeatureCount ==
    (input.kind \in {"chess", "raw", "marlin", "cudad"} /\ input.flaw = "none"
            /\ stage = "parsed" /\ res.ok) =>
        LET pairs == BoardPairs(res.val) IN
        /\ Len(pairs) = Cardinality(res.val.occ)
        /\ \A i \in 1..(Len(pairs) - 1) : pairs[i][2] < pairs[i + 1][2]
        /\ Cardinality({i \in 1..Len(pairs) : pairs[i][1] = WK}) = 1
        /\ \A i \in 1..Len(pairs) : pairs[i][1] = WK => pairs[i][2] = res.val.ksq
        /\ Cardinality({i \in 1..Len(pairs) : pairs[i][1] = BK}) = 1
        /\ \A i \in 1..Len(pairs) :
              pairs[i][1] = BK => BitXor(pairs[i][2], 56) = res.val.opp_ksq

\* a Marlin record of the initial position with Black to move has been
\* converted: 32 pairs, both kings mirrored
C9_Witness ==
    /\ stage = "parsed"
    /\ input.kind = "marlin" /\ input.pos = 4 /\ input.stm
    /\ res.ok
    /\ Len(BoardPairs(res.val)) = 32
    /\ res.val.ksq = 4 /\ res.val.opp_ksq = 4

\* C10: parse failure modes.  A line with fewer than three '|'-delimited
\* fields, with a character in its board field that is neither a piece
\* character nor an empty-run digit, with a score that is no i16, or with
\* an outcome token that is none of the accepted spellings parses to an
\* error, in chess and in Ataxx.
C10_FlawedLineIsError ==
    (input.flaw # "none" /\ stage = "parsed") => (~res.ok /\ res.err # "panic")

-----------------------------------------------------------------------------
(* convert.rs: the fork and join of a batch *)

\* C11: fork-join per batch in convert_from_bin.  A write to the output
\* happens only when every worker spawned for the current batch has
\* finished, and one worker was spawned for every chunk of it; the k-th
\* write of a batch appends the buffer of the k-th worker in spawn order,
\* the conversion of the k-th chunk; and a worker is spawned only when the
\* output holds every record of the batches before the current one.
C11_ForkJoinPerBatch ==
    /\ [][output' # output =>
            /\ Len(workers) = Len(Chunks(batch, ChunkSize))
            /\ \A w \in 1..Len(workers) : workers[w].st = "finished"
            /\ output' = output \o workers[nwritten + 1].buffer
            /\ Len(workers[nwritten + 1].buffer)
                    = Len(Chunks(batch, ChunkSize)[nwritten + 1])
            /\ nwritten' = nwritten + 1]_vars
    /\ [][Len(workers') > Len(workers) =>
            Len(output) = converted_count - Len(batch)]_vars
    /\ [](pc = "write" => \A w \in 1..Len(workers) : workers[w].st = "finished")

\* the second worker of a later batch is being spawned, the batches before
\* it written, after a batch whose workers finished out of spawn order
C11_Witness ==
    /\ pc = "spawn"
    /\ Len(workers) = 1
    /\ Len(output) >= 2
    /\ Len(output) = converted_count - Len(batch)
    /\ out_of_order

-----------------------------------------------------------------------------
(* loader.rs: map_batches_threaded_loading comes to an end *)

\* the steps of the spawned reader thread and of the calling thread
ReaderThread == ThreadReadHeader \/ ThreadRead \/ ThreadSend
CallingThread == Recv \/ ThreadCallF \/ Join

\* both threads are scheduled, and f returns: a thread that can take a step
\* takes it in the end
SpecThreadedFair ==
    SpecThreaded /\ WF_vars(ReaderThread) /\ WF_vars(CallingThread)

\* the records on their way to f in the order they were read: those handed
\* over, those of the buffer being batched, those queued
InFlight == Flatten(batches) \o Flatten(rest) \o Flatten(chan)

\* C12: termination of the threaded loader.  The reader thread gets a
\* zero-byte read and exits; map_batches_threaded_loading returns, and when
\* it does the reader has exited and every buffer sent has been received
\* and batched; buffers are received in the order they were sent, none
\* lost; and while the call has not returned some thread can take a step,
\* so the two threads never wait for each other for good.
C12_ThreadedTerminates ==
    /\ <>(pc = "exit")
    /\ <>(cpc = "done")
    /\ [](cpc = "done" =>
            pc = "exit" /\ chan = <<>> /\ rest = <<>> /\ InFlight = Flatten(batches))
    /\ [][InFlight' = InFlight
            \/ (pc = "send" /\ pc' = "read" /\ InFlight' = InFlight \o buffer)]_vars
    /\ [](cpc # "done" => ENABLED NextThreaded)

\* the call has returned after five refills of one record each, more than
\* the queue holds
C12_Witness ==
    /\ cpc = "done"
    /\ pc = "exit"
    /\ Len(file) = 5
    /\ buffer_size = DATA_SIZE
    /\ batch_size = 1
    /\ Len(batches) >= 5

-----------------------------------------------------------------------------
(* chess/marlin.rs, chess/cudad.rs: the pairs of a converted record *)

\* legacy.into_iter() collected: the pairs of the legacy record an input
\* describes
LegacyPairs(in) ==
    IF in.kind = "marlin"
    THEN IterPairs(MarlinOf(in).occ, MarlinOf(in).pcs, 0)
    ELSE IterPairs(CudADOf(in).occ, CudADOf(in).pcs, 0)

\* a legacy pair as the side to move sees it
Mirrored(feat, stm) ==
    IF stm THEN <<BitXor(feat[1], 8), BitXor(feat[2], 56)>> ELSE feat

\* C13: legacy conversion preserves the piece-square pairing.  The record
\* converted from a Marlin or CudAD record of at most 32 pieces with base
\* piece codes decodes to as many pairs as the legacy record, in strictly
\* ascending square order, and they are the legacy record's pairs:
\* unchanged with the first player to move, each with its code XOR 8 and
\* its square XOR 56 with the second player to move.
C13_PairingPreserved ==
    (input.kind \in {"marlin", "cudad"} /\ input.pos # 3
            /\ stage = "parsed" /\ res.ok) =>
        LET pairs == BoardPairs(res.val)
            legacy == LegacyPairs(input)
        IN
        /\ Len(legacy) <= 32
        /\ Len(pairs) = Len(legacy)
        /\ \A i \in 1..(Len(pairs) - 1) : pairs[i][2] < pairs[i + 1][2]
        /\ {pairs[i] : i \in 1..Len(pairs)}
              = {Mirrored(legacy[i], input.stm) : i \in 1..Len(legacy)}

\* a CudAD record of the six-piece position with Black to move has been
\* converted: the black queen of d8 is the mover's queen on d1, the first
\* pair, where the legacy record's first pair is the white rook of f1
C13_Witness ==
    /\ stage = "parsed"
    /\ input.kind = "cudad" /\ input.pos = 2 /\ input.stm
    /\ res.ok
    /\ LegacyPairs(input)[1] = <<3, 5>>
    /\ BoardPairs(res.val)[1] = <<4, 3>>
    /\ Len(BoardPairs(res.val)) = 6

-----------------------------------------------------------------------------
(* loader.rs: the size of the refill buffer *)

\* C14: refill buffer sizing.  For a budget that holds at least one record
\* and any batch size >= 1, a batch size above the number of records the
\* budget holds included, the refill buffer holds the budget rounded down
\* to whole records, so at least one record, and when map_batches returns
\* every record of the file has been handed to f.
C14_RefillHoldsARecord ==
    (buffer_size >= DATA_SIZE /\ batch_size >= 1) =>
        /\ pc # "start" =>
              /\ Len(buffer) = buffer_size \div DATA_SIZE
              /\ Len(buffer) >= 1
        /\ pc = "done" => Flatten(batches) = file

-----------------------------------------------------------------------------
(* convert.rs: the chunks of a batch *)

\* the chunks the workers of the current batch were given, in spawn order
WorkerChunks == [w \in 1..Len(workers) |-> workers[w].chunk]

\* every worker of the current batch has been spawned
AllSpawned == pc \in {"join", "write"}

\* C15 as the spec states it: a non-empty batch is split into exactly
\* threads chunks, one worker per chunk, the chunks contiguous,
\* non-overlapping, covering the batch and differing in size by at most one
\* record.
C15_ExactlyThreadsChunks ==
    AllSpawned =>
        /\ Len(workers) = threads
        /\ Flatten(WorkerChunks) = batch
        /\ \A v, w \in 1..Len(workers) :
              Len(workers[v].chunk) - Len(workers[w].chunk) <= 1

\* C15, amended: a non-empty batch of n records is split into
\* ceil(n / (n div threads + 1)) chunks, at least one and at most threads,
\* one worker per chunk; the chunks are contiguous, non-overlapping and
\* cover the batch; every chunk but the last holds n div threads + 1
\* records and the last holds from 1 to n div threads + 1.
C15_AtMostThreadsChunks ==
    AllSpawned =>
        LET n == Len(batch)
            size == n \div threads + 1
        IN
        /\ n >= 1
        /\ Len(workers) = CeilDiv(n, size)
        /\ Len(workers) >= 1 /\ Len(workers) <= threads
        /\ Flatten(WorkerChunks) = batch
        /\ \A w \in 1..(Len(workers) - 1) : Len(workers[w].chunk) = size
        /\ Len(workers[Len(workers)].chunk) \in 1..size

\* a batch of 4 records for 2 threads is in the hands of two workers, one
\* with 3 records and one with 1
C15_Witness ==
    /\ pc = "join"
    /\ threads = 2
    /\ Len(batch) = 4
    /\ Len(workers) = 2
    /\ Len(workers[1].chunk) = 3
    /\ Len(workers[2].chunk) = 1

====
